---- MODULE Spec2Model ----
(***************************************************************************)
(* A model of gtp_connection.py: the GTP session of a NoGo player.         *)
(*                                                                         *)
(* Text is modelled character by character: a Python str is a sequence of  *)
(* one-character strings, so that lower(), isdigit(), int(), split() and   *)
(* the coordinate codec are computed as the code computes them.            *)
(***************************************************************************)
EXTENDS Integers, Sequences, FiniteSets, TLC

VARIABLES
    board,      \* self.board: [size, board, current_player, ko_recapture]
    komi,       \* self.go_engine.komi, in tenths
    line,       \* the line get_cmd processed last
    out,        \* the frames the last get_cmd wrote to stdout
    status,     \* "returned", "quit" (exit()), "crashed" (a handler raised)
    applied,    \* number of play_move calls on the live board in the last get_cmd
    before,     \* history: the board as it was when the last line was read
    follows,    \* history: "same"/"other" when the last line is a play at the point of
                \* the successful play read just before it, by the same/the other colour
    point_str,  \* codec: the text given to move_to_coord
    board_size, \* codec: the board size given to move_to_coord
    coord,      \* codec: what move_to_coord returned
    text        \* codec: what format_point returned for coord

vars ==
    <<board, komi, line, out, status, applied, before, follows,
      point_str, board_size, coord, text>>
sessionVars == <<board, komi, line, out, status, applied, before, follows>>
codecVars == <<point_str, board_size, coord, text>>

----------------------------------------------------------------------------
(* board_util constants *)

EMPTY == 0
BLACK == 1
WHITE == 2
BORDER == 3
MAXSIZE == 25
MINSIZE == 2

(* Bounds of the model *)

\* the largest number of stones a modelled game puts on the board
MaxStones == 6
\* codec inputs have row texts "0" .. str(MaxRowText)
MaxRowText == 26
\* the largest number of stones in a game of SpecReplay
MaxReplayStones == 2
\* the board size of SpecList, large enough for rows of two digits
ListBoardSize == 10
\* the largest number of stones in a game of SpecList
MaxListStones == 3

\* the board sizes the modelled controller asks for
BoardSizes == {2, 3}

----------------------------------------------------------------------------
(* Python str, character by character *)

LowerLetters == <<"a", "b", "c", "d", "e", "f", "g", "h", "i", "j", "k", "l", "m",
                  "n", "o", "p", "q", "r", "s", "t", "u", "v", "w", "x", "y", "z">>
UpperLetters == <<"A", "B", "C", "D", "E", "F", "G", "H", "I", "J", "K", "L", "M",
                  "N", "O", "P", "Q", "R", "S", "T", "U", "V", "W", "X", "Y", "Z">>
DigitChars == <<"0", "1", "2", "3", "4", "5", "6", "7", "8", "9">>
\* the characters str.split() and str.lstrip() treat as whitespace
Whitespace == {" ", "\t", "\r", "\n"}

Range(s) == {s[i] : i \in 1..Len(s)}
IndexIn(c, s) == CHOOSE i \in 1..Len(s) : s[i] = c

isdigit_c(c) == c \in Range(DigitChars)
\* str.isdigit(): non-empty and every character a digit
isdigit(s) == Len(s) > 0 /\ \A i \in 1..Len(s) : isdigit_c(s[i])

lower_c(c) == IF c \in Range(UpperLetters) THEN LowerLetters[IndexIn(c, UpperLetters)] ELSE c
upper_c(c) == IF c \in Range(LowerLetters) THEN UpperLetters[IndexIn(c, LowerLetters)] ELSE c
lower(s) == [i \in 1..Len(s) |-> lower_c(s[i])]
upper(s) == [i \in 1..Len(s) |-> upper_c(s[i])]

\* s[i:] with a Python (0-based) index
From(s, i) == SubSeq(s, i + 1, Len(s))

\* seq[i] with a Python index: a negative index counts from the end
PyIndex(s, i) == IF i < 0 THEN s[Len(s) + i + 1] ELSE s[i + 1]

RECURSIVE DigitsValue(_)
DigitsValue(s) ==
    IF Len(s) = 0 THEN 0
    ELSE 10 * DigitsValue(SubSeq(s, 1, Len(s) - 1)) + (IndexIn(s[Len(s)], DigitChars) - 1)

RECURSIVE lstrip(_)
lstrip(s) == IF Len(s) > 0 /\ s[1] \in Whitespace THEN lstrip(Tail(s)) ELSE s
RECURSIVE rstrip(_)
rstrip(s) ==
    IF Len(s) > 0 /\ s[Len(s)] \in Whitespace THEN rstrip(SubSeq(s, 1, Len(s) - 1)) ELSE s

\* the digit groups of an int literal: digits, single underscores only between digits
IntBody(s) ==
    /\ Len(s) > 0
    /\ \A i \in 1..Len(s) : isdigit_c(s[i]) \/ s[i] = "_"
    /\ isdigit_c(s[1]) /\ isdigit_c(s[Len(s)])
    /\ \A i \in 1..(Len(s) - 1) : ~(s[i] = "_" /\ s[i + 1] = "_")

\* int(s): surrounding whitespace, an optional sign, digits with "_" separators;
\* anything else raises ValueError
int(s) ==
    LET t == rstrip(lstrip(s))
        signed == Len(t) > 0 /\ t[1] \in {"+", "-"}
        body == IF signed THEN Tail(t) ELSE t
        mag == DigitsValue(SelectSeq(body, isdigit_c))
    IN  IF IntBody(body)
        THEN [raised |-> FALSE, value |-> IF signed /\ t[1] = "-" THEN 0 - mag ELSE mag]
        ELSE [raised |-> TRUE, value |-> 0]

\* str(n) for n >= 0
RECURSIVE str(_)
str(n) == IF n < 10 THEN <<DigitChars[n + 1]>> ELSE str(n \div 10) \o <<DigitChars[(n % 10) + 1]>>

----------------------------------------------------------------------------
(* The coordinate codec *)

\* a coordinate value: PASS (None), False, or a (row, col) tuple
PASS == [tag |-> "pass", row |-> 0, col |-> 0]
False == [tag |-> "false", row |-> 0, col |-> 0]
RowCol(row, col) == [tag |-> "coord", row |-> row, col |-> col]
\* the call raised ValueError
Raised == [tag |-> "raise", row |-> 0, col |-> 0]
\* nothing decoded yet, nothing formatted yet
NoCoord == [tag |-> "none", row |-> 0, col |-> 0]
NoText == [raised |-> FALSE, s |-> <<>>]

column_letters == <<"A", "B", "C", "D", "E", "F", "G", "H", "J", "K", "L", "M", "N",
                    "O", "P", "Q", "R", "S", "T", "U", "V", "W", "X", "Y", "Z">>

format_point(move) ==
    IF move = PASS THEN [raised |-> FALSE, s |-> <<"P", "A", "S", "S">>]
    ELSE IF ~(0 <= move.row /\ move.row < MAXSIZE) \/ ~(0 <= move.col /\ move.col < MAXSIZE)
         THEN [raised |-> TRUE, s |-> <<>>]
         ELSE [raised |-> FALSE, s |-> <<PyIndex(column_letters, move.col - 1)>> \o str(move.row)]

move_to_coord(p_str, size) ==
    LET s == lower(p_str)
        col_c == s[1]
        ord == IndexIn(col_c, LowerLetters) - 1          \* ord(col_c) - ord("a")
        col == IF ord < 8 THEN ord + 1 ELSE ord          \* col_c < "i"
        row == int(From(s, 1))
    IN  IF ~(MINSIZE <= size /\ size <= MAXSIZE) THEN Raised
        ELSE IF s = <<"p", "a", "s", "s">> THEN PASS
        ELSE IF Len(s) = 0 THEN False                    \* s[0]: IndexError
        ELSE IF col_c \notin Range(LowerLetters) \/ col_c = "i" THEN False
        ELSE IF row.raised THEN False                    \* int(): ValueError
        ELSE IF row.value < 1 THEN False
        ELSE IF ~(col <= size /\ row.value <= size) THEN False
        ELSE RowCol(row.value, col)

----------------------------------------------------------------------------
(* The board collaborator (board.py, board_util.py): a Go board kept as a   *)
(* one-dimensional array with a border, points indexed row * (size+1) + col *)

\* a point that is None: PASS, or no ko point
NoPoint == -1

opponent(color) == WHITE + BLACK - color

coord_to_point(row, col, size) == (size + 1) * row + col

\* point_to_coord's divmod(point, NS)
point_to_coord(point, size) ==
    IF point = NoPoint THEN PASS
    ELSE RowCol(point \div (size + 1), point % (size + 1))

maxpoint(size) == size * size + 3 * (size + 1)

OnBoard(size) == {coord_to_point(r, c, size) : r \in 1..size, c \in 1..size}

EmptyArray(size) ==
    [p \in 0..(maxpoint(size) - 1) |-> IF p \in OnBoard(size) THEN EMPTY ELSE BORDER]

\* GoBoard.reset(size)
reset(size) ==
    [size |-> size, board |-> EmptyArray(size), current_player |-> BLACK,
     ko_recapture |-> NoPoint]

neighbors(b, point) == {point - 1, point + 1, point - (b.size + 1), point + (b.size + 1)}

get_color(b, point) == b.board[point]

\* where1d(board == EMPTY): the empty points in increasing index order
get_empty_points(b) ==
    SelectSeq([i \in 1..maxpoint(b.size) |-> i - 1], LAMBDA p : b.board[p] = EMPTY)

\* the connected stones of the colour of stone that contain it
RECURSIVE Flood(_, _, _)
Flood(b, color, S) ==
    LET T == S \cup {q \in UNION {neighbors(b, p) : p \in S} : b.board[q] = color}
    IN  IF T = S THEN S ELSE Flood(b, color, T)

block_of(b, stone) == Flood(b, b.board[stone], {stone})

has_liberty(b, block) == \E p \in block : \E q \in neighbors(b, p) : b.board[q] = EMPTY

is_surrounded(b, point, color) ==
    \A q \in neighbors(b, point) : b.board[q] \in {BORDER, color}

\* the opponent blocks next to point that have no liberty once color stands on it
CapturedBy(b, point, color) ==
    LET placed == [b EXCEPT !.board[point] = color]
    IN  UNION {block_of(placed, nb) :
                 nb \in {q \in neighbors(b, point) :
                            /\ placed.board[q] = opponent(color)
                            /\ ~has_liberty(placed, block_of(placed, q))}}

\* GoBoard.play_move(point, color): [applied, b], b the board afterwards
play_move(b, point, color) ==
    LET stones == CapturedBy(b, point, color)
        taken == [b EXCEPT !.board = [p \in DOMAIN b.board |->
                     IF p = point THEN color
                     ELSE IF p \in stones THEN EMPTY ELSE b.board[p]]]
        in_enemy_eye == is_surrounded(b, point, opponent(color))
        done == [taken EXCEPT !.current_player = opponent(color),
                              !.ko_recapture = IF in_enemy_eye /\ Cardinality(stones) = 1
                                               THEN CHOOSE p \in stones : TRUE
                                               ELSE NoPoint]
    IN  IF point = NoPoint
        THEN [applied |-> TRUE,
              b |-> [b EXCEPT !.current_player = opponent(color), !.ko_recapture = NoPoint]]
        ELSE IF b.board[point] # EMPTY THEN [applied |-> FALSE, b |-> b]
        ELSE IF point = b.ko_recapture THEN [applied |-> FALSE, b |-> b]
        ELSE IF ~has_liberty(taken, block_of(taken, point))
             THEN [applied |-> FALSE, b |-> b]           \* suicide: undone
        ELSE [applied |-> TRUE, b |-> done]

\* GoBoard.is_legal(point, color): play_move on a copy succeeds
is_legal(b, point, color) == play_move(b, point, color).applied

\* GoBoard.check_suicide(point, color): the stone, once played, has no liberty
check_suicide(b, point, color) ==
    LET stones == CapturedBy(b, point, color)
        taken == [b EXCEPT !.board = [p \in DOMAIN b.board |->
                     IF p = point THEN color
                     ELSE IF p \in stones THEN EMPTY ELSE b.board[p]]]
    IN  ~has_liberty(taken, block_of(taken, point))

----------------------------------------------------------------------------
(* Command names, as text *)

N_protocol_version == <<"p", "r", "o", "t", "o", "c", "o", "l", "_", "v", "e", "r", "s", "i", "o", "n">>
N_quit == <<"q", "u", "i", "t">>
N_name == <<"n", "a", "m", "e">>
N_boardsize == <<"b", "o", "a", "r", "d", "s", "i", "z", "e">>
N_showboard == <<"s", "h", "o", "w", "b", "o", "a", "r", "d">>
N_clear_board == <<"c", "l", "e", "a", "r", "_", "b", "o", "a", "r", "d">>
N_komi == <<"k", "o", "m", "i">>
N_version == <<"v", "e", "r", "s", "i", "o", "n">>
N_known_command == <<"k", "n", "o", "w", "n", "_", "c", "o", "m", "m", "a", "n", "d">>
N_genmove == <<"g", "e", "n", "m", "o", "v", "e">>
N_list_commands == <<"l", "i", "s", "t", "_", "c", "o", "m", "m", "a", "n", "d", "s">>
N_play == <<"p", "l", "a", "y">>
N_gogui_rules_legal_moves == <<"g", "o", "g", "u", "i", "-", "r", "u", "l", "e", "s", "_", "l", "e", "g", "a", "l", "_", "m", "o", "v", "e", "s">>
N_gogui_rules_final_result == <<"g", "o", "g", "u", "i", "-", "r", "u", "l", "e", "s", "_", "f", "i", "n", "a", "l", "_", "r", "e", "s", "u", "l", "t">>
N_gogui_rules_side_to_move == <<"g", "o", "g", "u", "i", "-", "r", "u", "l", "e", "s", "_", "s", "i", "d", "e", "_", "t", "o", "_", "m", "o", "v", "e">>
N_gogui_rules_game_id == <<"g", "o", "g", "u", "i", "-", "r", "u", "l", "e", "s", "_", "g", "a", "m", "e", "_", "i", "d">>
N_gogui_rules_board == <<"g", "o", "g", "u", "i", "-", "r", "u", "l", "e", "s", "_", "b", "o", "a", "r", "d">>
N_gogui_analyze_commands == <<"g", "o", "g", "u", "i", "-", "a", "n", "a", "l", "y", "z", "e", "_", "c", "o", "m", "m", "a", "n", "d", "s">>
N_gogui_rules_board_size == <<"g", "o", "g", "u", "i", "-", "r", "u", "l", "e", "s", "_", "b", "o", "a", "r", "d", "_", "s", "i", "z", "e">>
N_legal_moves == <<"l", "e", "g", "a", "l", "_", "m", "o", "v", "e", "s">>
N_foo == <<"f", "o", "o">>

\* self.commands, in insertion order
commands ==
    <<N_protocol_version, N_quit, N_name, N_boardsize,
      N_showboard, N_clear_board, N_komi, N_version,
      N_known_command, N_genmove, N_list_commands, N_play,
      N_gogui_rules_legal_moves, N_gogui_rules_final_result, N_gogui_rules_side_to_move, N_gogui_rules_game_id,
      N_gogui_rules_board, N_gogui_analyze_commands, N_gogui_rules_board_size>>

T_BORDER == <<"B", "O", "R", "D", "E", "R">>
E_index == <<"s", "t", "r", "i", "n", "g", " ", "i", "n", "d", "e", "x", " ", "o", "u", "t", " ", "o", "f", " ", "r", "a", "n", "g", "e">>
E_remove == <<"l", "i", "s", "t", ".", "r", "e", "m", "o", "v", "e", "(", "x", ")", ":", " ", "x", " ", "n", "o", "t", " ", "i", "n", " ", "l", "i", "s", "t">>
E_board_size == <<"b", "o", "a", "r", "d", "_", "s", "i", "z", "e", " ", "o", "u", "t", " ", "o", "f", " ", "r", "a", "n", "g", "e">>

\* self.argmap: (required number of arguments, error message on argnum failure)
argmap_keys == {N_boardsize, N_komi, N_known_command, N_genmove, N_play, N_legal_moves}

argmap(cmd) ==
    IF cmd = N_boardsize THEN [argnum |-> 1, usage |-> "Usage: boardsize INT"]
    ELSE IF cmd = N_komi THEN [argnum |-> 1, usage |-> "Usage: komi FLOAT"]
    ELSE IF cmd = N_known_command THEN [argnum |-> 1, usage |-> "Usage: known_command CMD_NAME"]
    ELSE IF cmd = N_genmove THEN [argnum |-> 1, usage |-> "Usage: genmove {w,b}"]
    ELSE IF cmd = N_play THEN [argnum |-> 2, usage |-> "Usage: play {b,w} MOVE"]
    ELSE [argnum |-> 1, usage |-> "Usage: legal_moves {w,b}"]

----------------------------------------------------------------------------
(* Frames written to stdout: a prefix and a payload, the payload a format   *)
(* text whose {} are filled, in order, with the texts of args.              *)

\* GtpConnection.error: "? {}\n\n"
error(error_msg) == [prefix |-> "?", text |-> error_msg, args |-> <<>>]

\* GtpConnection.respond: "= {}\n\n"
respond(response, args) == [prefix |-> "=", text |-> response, args |-> args]

\* separator.join(list)
join(sep, list) ==
    LET RECURSIVE between(_, _)
        between(lo, hi) ==
            IF lo > hi THEN <<>>
            ELSE IF lo = hi THEN list[lo]
            ELSE between(lo, (lo + hi) \div 2) \o sep \o between((lo + hi) \div 2 + 1, hi)
    IN  between(1, Len(list))

\* str.split(): the maximal runs of non-whitespace characters
RECURSIVE split(_)
split(s) ==
    LET t == lstrip(s)
        stops == {i \in 1..Len(t) : t[i] \in Whitespace}
        n == IF stops = {} THEN Len(t) + 1 ELSE CHOOSE i \in stops : \A j \in stops : i <= j
    IN  IF Len(t) = 0 THEN <<>>
        ELSE <<SubSeq(t, 1, n - 1)>> \o split(SubSeq(t, n, Len(t)))

\* command.strip(" \r\t")
RECURSIVE strip_blank(_)
strip_blank(s) ==
    IF Len(s) > 0 /\ s[1] \in {" ", "\r", "\t"} THEN strip_blank(Tail(s))
    ELSE IF Len(s) > 0 /\ s[Len(s)] \in {" ", "\r", "\t"}
         THEN strip_blank(SubSeq(s, 1, Len(s) - 1))
         ELSE s

\* re.sub("^\d+", "", command)
RECURSIVE strip_id(_)
strip_id(s) == IF Len(s) > 0 /\ isdigit_c(s[1]) THEN strip_id(Tail(s)) ELSE s

\* get_cmd's parsing without lines 99-100: the numeric id is kept
elements_keep_id(command) ==
    IF Len(strip_blank(command)) = 0 THEN <<>>
    ELSE IF command[1] = "#" THEN <<>>
    ELSE split(command)

\* get_cmd, lines 94-106: the tokens of a line, <<>> when the line is ignored
elements(command) ==
    IF Len(strip_blank(command)) = 0 THEN <<>>
    ELSE IF command[1] = "#" THEN <<>>
    ELSE IF isdigit_c(command[1]) THEN split(lstrip(strip_id(command)))
    ELSE split(command)

\* color_to_int: a dict lookup, KeyError for any other key
color_to_int(c) ==
    IF c = <<"b">> THEN [raised |-> FALSE, value |-> BLACK]
    ELSE IF c = <<"w">> THEN [raised |-> FALSE, value |-> WHITE]
    ELSE IF c = <<"e">> THEN [raised |-> FALSE, value |-> EMPTY]
    ELSE IF c = T_BORDER THEN [raised |-> FALSE, value |-> BORDER]
    ELSE [raised |-> TRUE, value |-> BORDER]

\* str(KeyError(key))
KeyErrorText(key) == <<"'">> \o key \o <<"'">>

----------------------------------------------------------------------------
(* Game-specific helpers of GtpConnection *)

\* list.remove(x): the list without the first x
remove(list, x) ==
    LET i == CHOOSE k \in 1..Len(list) : list[k] = x /\ \A j \in 1..(k - 1) : list[j] # x
    IN  SubSeq(list, 1, i - 1) \o SubSeq(list, i + 1, Len(list))

\* capture_detection without tmp_list_original.remove(point)
capture_detection_no_remove(b, point, color) ==
    LET monitor_board == play_move(b, point, color).b
        empty_points_original == get_empty_points(b)
        monitor_points_after == get_empty_points(monitor_board)
    IN  IF point \notin Range(empty_points_original)
        THEN [raised |-> TRUE, value |-> FALSE]
        ELSE [raised |-> FALSE, value |-> empty_points_original # monitor_points_after]

\* capture_detection: raised when list.remove raises ValueError
capture_detection(b, point, color) ==
    LET monitor_board == play_move(b, point, color).b
        empty_points_original == get_empty_points(b)
        monitor_points_after == get_empty_points(monitor_board)
        tmp_list_original == remove(empty_points_original, point)
    IN  IF point \notin Range(empty_points_original)
        THEN [raised |-> TRUE, value |-> FALSE]
        ELSE [raised |-> FALSE, value |-> tmp_list_original # monitor_points_after]

\* legal_move_helper that returns every empty point
legal_move_helper_all_empty(b) == get_empty_points(b)

\* legal_move_helper without the capture check
legal_move_helper_no_capture(b) ==
    SelectSeq(get_empty_points(b), LAMBDA point : is_legal(b, point, b.current_player))

legal_move_helper(b) ==
    LET color == b.current_player
        keep(point) == /\ is_legal(b, point, color)
                       /\ ~capture_detection(b, point, color).value
    IN  SelectSeq(get_empty_points(b), keep)

\* the order of the characters of coordinate texts: digits before letters
Ord(c) == IF isdigit_c(c) THEN IndexIn(c, DigitChars) ELSE 10 + IndexIn(c, UpperLetters)

\* a < b for two texts, as Python compares strings
RECURSIVE TextLess(_, _)
TextLess(a, b) ==
    IF Len(b) = 0 THEN FALSE
    ELSE IF Len(a) = 0 THEN TRUE
    ELSE IF a[1] # b[1] THEN Ord(a[1]) < Ord(b[1])
    ELSE TextLess(Tail(a), Tail(b))

\* list.sort() of distinct coordinate texts, by the whole text
sort_whole(list) ==
    LET group(k) == SelectSeq(list, LAMBDA x : x[1] = UpperLetters[k])
        sorted(g) == [i \in 1..Len(g) |->
                        CHOOSE x \in Range(g) :
                            Cardinality({y \in Range(g) : TextLess(y, x)}) = i - 1]
        RECURSIVE from(_)
        from(k) ==
            IF k > Len(UpperLetters) THEN <<>>
            ELSE sorted(group(k)) \o from(k + 1)
    IN  from(1)

\* list.sort(key=lambda x: x[0]) of coordinate texts: stable, by column letter
sort_by_first(list) ==
    LET RECURSIVE from(_)
        from(k) ==
            IF k > Len(UpperLetters) THEN <<>>
            ELSE SelectSeq(list, LAMBDA x : x[1] = UpperLetters[k]) \o from(k + 1)
    IN  from(1)

\* color_checker that accepts either colour of stone, whoever is to move
color_checker_any(b, input_color) == input_color \in {BLACK, WHITE}

color_checker(b, input_color) == ~(input_color # b.current_player)

\* coordinate_checker: point[1] raises IndexError on a one-character token
coordinate_checker(color, point) ==
    IF Len(point) < 2 THEN [raised |-> TRUE, value |-> FALSE]
    ELSE [raised |-> FALSE, value |-> isdigit(<<point[2]>>)]

occupied_checker(b, point) == ~(get_color(b, point) # 0)

\* board2d(): the rows of the board, top row first
board2d(b) ==
    LET rowtext(r) == join(<<" ">>, [c \in 1..b.size |->
                                        str(b.board[coord_to_point(r, c, b.size)])])
    IN  join(<<"\n">>, [i \in 1..b.size |-> rowtext(b.size + 1 - i)])

\* the text gogui_rules_board_cmd builds
rules_board_text(b) ==
    LET cell(r, c) == LET v == b.board[coord_to_point(r, c, b.size)]
                      IN  IF v = BLACK THEN "X" ELSE IF v = WHITE THEN "O" ELSE "."
        rowtext(r) == [c \in 1..b.size |-> cell(r, c)] \o <<"\n">>
        RECURSIVE rows(_)
        rows(r) == IF r < 1 THEN <<>> ELSE rowtext(r) \o rows(r - 1)
    IN  rows(b.size)

\* float(s), in tenths: digits with an optional one-digit fraction, else ValueError
float(s) ==
    LET dots == {i \in 1..Len(s) : s[i] = "."}
        d == CHOOSE i \in dots : TRUE
        whole == int(IF dots = {} THEN s ELSE SubSeq(s, 1, d - 1))
        frac == SubSeq(s, d + 1, Len(s))
    IN  IF dots = {} THEN [raised |-> whole.raised, value |-> 10 * whole.value]
        ELSE IF Cardinality(dots) > 1 \/ whole.raised \/ Len(frac) # 1 \/ ~isdigit(frac)
             THEN [raised |-> TRUE, value |-> 0]
             ELSE [raised |-> FALSE, value |-> 10 * whole.value + DigitsValue(frac)]

----------------------------------------------------------------------------
(* The controller's lines *)

\* a line: the tokens separated by one space, ended by a newline
Cmd(tokens) == join(<<" ">>, tokens) \o <<"\n">>

Columns == <<"a", "b", "c">>
ColorTokens == {<<"b">>, <<"w">>}
PointTokens == {<<Columns[c]>> \o str(r) : c \in 1..3, r \in 1..3}

\* coordinate tokens that are not a point of the board, or not a point at all
BadPointTokens ==
    {<<"a">>, <<"p", "a", "s", "s">>, <<"a", "1", "x">>, <<"i", "1">>, <<"d", "1">>,
     <<"a", "0">>, <<"z", "z">>}

PlayInputs ==
    {Cmd(<<N_play, c, p>>) : c \in ColorTokens, p \in PointTokens \cup BadPointTokens}
    \cup {Cmd(<<N_play, <<"B">>, <<"A", "1">>>>), Cmd(<<N_play, <<"W">>, <<"B", "2">>>>),
          Cmd(<<N_play, <<"x">>, <<"a", "1">>>>), Cmd(<<N_play, <<"e">>, <<"a", "1">>>>),
          Cmd(<<N_play, <<"b">>>>)}

QueryInputs ==
    {Cmd(<<n>>) : n \in {N_protocol_version, N_quit, N_name, N_showboard, N_clear_board,
                         N_version, N_list_commands, N_gogui_rules_legal_moves,
                         N_gogui_rules_final_result, N_gogui_rules_side_to_move,
                         N_gogui_rules_game_id, N_gogui_rules_board,
                         N_gogui_analyze_commands, N_gogui_rules_board_size}}

SetupInputs ==
    {Cmd(<<N_boardsize, str(n)>>) : n \in BoardSizes}
    \cup {Cmd(<<N_boardsize, <<"x">>>>), Cmd(<<N_boardsize>>),
          Cmd(<<N_komi, <<"6", ".", "5">>>>), Cmd(<<N_komi, <<"x">>>>),
          Cmd(<<N_known_command, N_genmove>>), Cmd(<<N_known_command, N_foo>>)}

GenmoveInputs ==
    {Cmd(<<N_genmove, c>>) : c \in ColorTokens \cup {<<"B">>, <<"x">>}}
    \cup {Cmd(<<N_genmove>>)}

UnknownInputs ==
    {Cmd(<<N_foo>>), Cmd(<<N_foo, <<"b">>, <<"a", "1">>>>),
     Cmd(<<N_legal_moves>>), Cmd(<<N_legal_moves, <<"b">>>>)}

\* blank lines, comments, and lines with a numeric id
OtherInputs ==
    {<<"\n">>, <<" ", "\t", "\n">>, <<"#">> \o Cmd(<<N_name>>), <<" ", "#", "\n">>,
     <<"1", "2", "\n">>, <<"1", " ">> \o Cmd(<<N_play, <<"b">>, <<"a", "1">>>>),
     <<"7">> \o Cmd(<<N_name>>)}

\* lines with too few or too many arguments for a command of argmap
ArityInputs ==
    {Cmd(<<N_komi>>), Cmd(<<N_known_command>>),
     Cmd(<<N_play, <<"b">>, <<"a", "1">>, <<"x">>>>),
     Cmd(<<N_boardsize, <<"2">>, <<"3">>>>), Cmd(<<N_genmove, <<"b">>, <<"w">>>>),
     Cmd(<<N_komi, <<"0">>, <<"5">>>>), Cmd(<<N_known_command, N_name, N_quit>>)}

Lines == PlayInputs \cup QueryInputs \cup SetupInputs \cup GenmoveInputs \cup UnknownInputs
         \cup OtherInputs \cup ArityInputs

\* the tokens of each line, computed once
parsed == [command \in Lines |-> elements(command)]

command_name(command) == parsed[command][1]
args_of(command) == Tail(parsed[command])

----------------------------------------------------------------------------
(* The session: get_cmd and the handlers it dispatches to *)

Stones(b) == Cardinality({p \in DOMAIN b.board : b.board[p] \in {BLACK, WHITE}})

\* what one get_cmd leaves behind
Finish(frames, b, k, st, n) ==
    /\ out' = frames
    /\ board' = b
    /\ komi' = k
    /\ status' = st
    /\ applied' = n
    /\ before' = board
    /\ UNCHANGED codecVars

Reply(frame) == Finish(<<frame>>, board, komi, "returned", 0)

\* the handler raised: get_cmd re-raises and start_connection ends
Crash == Finish(<<>>, board, komi, "crashed", 0)

\* has_arg_error that only counts missing arguments
has_arg_error_too_few(cmd, argnum) == cmd \in argmap_keys /\ argmap(cmd).argnum > argnum

has_arg_error(cmd, argnum) == cmd \in argmap_keys /\ argmap(cmd).argnum # argnum

\* get_cmd up to the dispatch: the line is not ignored and passes the arity check
Dispatched(command, name) ==
    /\ parsed[command] # <<>>
    /\ command_name(command) = name
    /\ ~has_arg_error(name, Len(args_of(command)))

\* the lines get_cmd hands to the handler of name
DispatchedTo(name) == {command \in Lines : Dispatched(command, name)}

PlayLines == DispatchedTo(N_play)

\* how command follows the line processed before it
Follows(command) ==
    IF /\ line \in PlayLines /\ out = <<respond("", <<>>)>> /\ command \in PlayLines
       /\ lower(args_of(command)[2]) = lower(args_of(line)[2])
    THEN IF lower(args_of(command)[1]) = lower(args_of(line)[1]) THEN "same"
         ELSE IF lower(args_of(command)[1]) \in ColorTokens THEN "other"
         ELSE "none"
    ELSE "none"

\* start_connection has read command and calls get_cmd(command)
Read(command) ==
    /\ status = "reading"
    /\ line' = command
    /\ follows' = Follows(command)

protocol_version_cmd(args) == Reply(respond("2", <<>>))

\* respond(), then exit(): SystemExit is no Exception and ends the session
quit_cmd(args) == Finish(<<respond("", <<>>)>>, board, komi, "quit", 0)

name_cmd(args) == Reply(respond("{go_engine.name}", <<>>))

version_cmd(args) == Reply(respond("{go_engine.version}", <<>>))

clear_board_cmd(args) ==
    Finish(<<respond("", <<>>)>>, reset(board.size), komi, "returned", 0)

boardsize_cmd(args) ==
    LET size == int(args[1])
    IN  IF size.raised THEN Crash
        ELSE Finish(<<respond("", <<>>)>>, reset(size.value), komi, "returned", 0)

showboard_cmd(args) == Reply(respond("\n{}", <<board2d(board)>>))

komi_cmd(args) ==
    LET k == float(args[1])
    IN  IF k.raised THEN Crash
        ELSE Finish(<<respond("", <<>>)>>, board, k.value, "returned", 0)

\* known_command_cmd that answers only for a known command
known_command_silent(args) ==
    IF args[1] \in Range(commands) THEN Reply(respond("true", <<>>))
    ELSE Finish(<<>>, board, komi, "returned", 0)

known_command_cmd(args) ==
    IF args[1] \in Range(commands) THEN Reply(respond("true", <<>>))
    ELSE Reply(respond("false", <<>>))

list_commands_cmd(args) == Reply(respond("{}", <<join(<<" ">>, commands)>>))

gogui_analyze_cmd(args) == Reply(respond("{gogui analyze commands}", <<>>))

gogui_rules_game_id_cmd(args) == Reply(respond("NoGo", <<>>))

gogui_rules_board_size_cmd(args) == Reply(respond("{}", <<str(board.size)>>))

gogui_rules_side_to_move_cmd(args) ==
    Reply(respond(IF board.current_player = BLACK THEN "black" ELSE "white", <<>>))

gogui_rules_board_cmd(args) == Reply(respond("{}", <<rules_board_text(board)>>))

\* gogui_rules_final_result_cmd naming the side to move as the winner
gogui_rules_final_result_swapped(args) ==
    IF Len(legal_move_helper(board)) = 0
    THEN IF board.current_player = 1
         THEN Reply(respond("black", <<>>))
         ELSE Reply(respond("white", <<>>))
    ELSE Reply(respond("unknown", <<>>))

gogui_rules_final_result_cmd(args) ==
    IF Len(legal_move_helper(board)) = 0
    THEN IF board.current_player = 1
         THEN Reply(respond("white", <<>>))
         ELSE Reply(respond("black", <<>>))
    ELSE Reply(respond("unknown", <<>>))

\* gogui_rules_legal_moves_cmd that tries the first listed move on the live board
gogui_rules_legal_moves_live(args) ==
    \E return_list \in {legal_move_helper(board)} :
        \E texts \in {[i \in 1..Len(return_list) |->
                          format_point(point_to_coord(return_list[i], board.size)).s]} :
            Finish(<<respond("{}", <<join(<<" ">>, sort_by_first(texts))>>)>>,
                   IF Len(return_list) = 0 THEN board
                   ELSE play_move(board, return_list[1], board.current_player).b,
                   komi, "returned", 0)

\* return_list is computed once, then formatted in place, sorted and joined
gogui_rules_legal_moves_cmd(args) ==
    \E return_list \in {legal_move_helper(board)} :
        \E formatted \in {[i \in 1..Len(return_list) |->
                              format_point(point_to_coord(return_list[i], board.size))]} :
            LET texts == [i \in 1..Len(return_list) |-> formatted[i].s]
            IN  IF \E i \in 1..Len(return_list) : formatted[i].raised THEN Crash
                ELSE \E sorted \in {sort_by_first(texts)} :
                         Reply(respond("{}", <<join(<<" ">>, sorted)>>))

play_cmd(args) ==
    LET board_color == lower(args[1])
        color == color_to_int(board_color)
        coordinate_validity == coordinate_checker(args[1], args[2])
        crd == move_to_coord(args[2], board.size)
        move == coord_to_point(crd.row, crd.col, board.size)
        capture == capture_detection(board, move, board.current_player)
        Illegal(reason) == Reply(respond(reason, <<args[1], args[2]>>))
        Error(e) == Reply(respond("Error: {}", <<e>>))
    IN  IF color.raised THEN Error(KeyErrorText(board_color))
        ELSE IF ~color_checker(board, color.value)
             THEN Illegal("illegal move: \"{} {}\" wrong color")
        ELSE IF coordinate_validity.raised THEN Error(E_index)
        ELSE IF ~coordinate_validity.value
             THEN Illegal("illegal move: \"{} {}\" wrong coordinate")
        ELSE IF crd = Raised THEN Error(E_board_size)
        ELSE IF crd.tag # "coord"
             THEN Illegal("illegal move: \"{} {}\" wrong coordinate")
        ELSE IF ~occupied_checker(board, move)
             THEN Illegal("illegal move: \"{} {}\" occupied")
        ELSE IF check_suicide(board, move, color.value)
             THEN Illegal("illegal move: \"{} {}\" suicide")
        ELSE IF capture.raised THEN Error(E_remove)
        ELSE IF capture.value
             THEN Illegal("illegal move: \"{} {}\" capture")
        ELSE Finish(<<respond("", <<>>)>>, play_move(board, move, color.value).b,
                    komi, "returned", 1)

\* move: what go_engine.get_move(self.board, color) returns
genmove_cmd(args, move) ==
    LET board_color == lower(args[1])
        color == color_to_int(board_color)
        move_coord == point_to_coord(move, board.size)
        move_as_string == format_point(move_coord)
        given == color_to_int(args[1])
        capture == capture_detection(board, move, color.value)
    IN  IF color.raised \/ move_as_string.raised \/ given.raised THEN Crash
        ELSE IF given.value # board.current_player
             THEN Reply(respond("illegal move: \"{}\" wrong color", <<args[1]>>))
        ELSE IF is_legal(board, move, color.value)
             THEN IF capture.raised THEN Crash
                  ELSE IF ~capture.value
                       THEN Finish(<<respond("{}", <<move_as_string.s>>)>>,
                                   play_move(board, move, color.value).b,
                                   komi, "returned", 1)
                       ELSE Reply(respond("resign", <<>>))
        ELSE Reply(respond("Illegal move: {}", <<move_as_string.s>>))

----------------------------------------------------------------------------
(* get_cmd, one action per way through it *)

\* lines 94-104: blank lines, comments and lines without a command are ignored
IgnoredLines == {command \in Lines : parsed[command] = <<>>}

Ignore ==
    \E command \in IgnoredLines :
        /\ Read(command)
        /\ Finish(<<>>, board, komi, "returned", 0)

\* lines 107-108 and has_arg_error: a usage error, the handler is not called
ArgErrorLines ==
    {command \in Lines \ IgnoredLines :
        has_arg_error(command_name(command), Len(args_of(command)))}

ArgError ==
    \E command \in ArgErrorLines :
        /\ Read(command)
        /\ Reply(error(argmap(command_name(command)).usage))

\* lines 117-120
UnknownLines ==
    {command \in Lines \ (IgnoredLines \cup ArgErrorLines) :
        command_name(command) \notin Range(commands)}

UnknownCommand ==
    \E command \in UnknownLines :
        /\ Read(command)
        /\ Reply(error("Unknown command"))

ProtocolVersionLines == DispatchedTo(N_protocol_version)
ProtocolVersion ==
    \E command \in ProtocolVersionLines : Read(command) /\ protocol_version_cmd(args_of(command))

QuitLines == DispatchedTo(N_quit)
Quit ==
    \E command \in QuitLines : Read(command) /\ quit_cmd(args_of(command))

NameLines == DispatchedTo(N_name)
Name ==
    \E command \in NameLines : Read(command) /\ name_cmd(args_of(command))

VersionLines == DispatchedTo(N_version)
Version ==
    \E command \in VersionLines : Read(command) /\ version_cmd(args_of(command))

ClearBoardLines == DispatchedTo(N_clear_board)
ClearBoard ==
    \E command \in ClearBoardLines : Read(command) /\ clear_board_cmd(args_of(command))

BoardsizeLines == DispatchedTo(N_boardsize)
Boardsize ==
    \E command \in BoardsizeLines : Read(command) /\ boardsize_cmd(args_of(command))

ShowboardLines == DispatchedTo(N_showboard)
Showboard ==
    \E command \in ShowboardLines : Read(command) /\ showboard_cmd(args_of(command))

KomiLines == DispatchedTo(N_komi)
Komi ==
    \E command \in KomiLines : Read(command) /\ komi_cmd(args_of(command))

KnownCommandLines == DispatchedTo(N_known_command)
KnownCommand ==
    \E command \in KnownCommandLines : Read(command) /\ known_command_cmd(args_of(command))

ListCommandsLines == DispatchedTo(N_list_commands)
ListCommands ==
    \E command \in ListCommandsLines : Read(command) /\ list_commands_cmd(args_of(command))

GoguiAnalyzeLines == DispatchedTo(N_gogui_analyze_commands)
GoguiAnalyze ==
    \E command \in GoguiAnalyzeLines : Read(command) /\ gogui_analyze_cmd(args_of(command))

GoguiRulesGameIdLines == DispatchedTo(N_gogui_rules_game_id)
GoguiRulesGameId ==
    \E command \in GoguiRulesGameIdLines : Read(command) /\ gogui_rules_game_id_cmd(args_of(command))

GoguiRulesBoardSizeLines == DispatchedTo(N_gogui_rules_board_size)
GoguiRulesBoardSize ==
    \E command \in GoguiRulesBoardSizeLines : Read(command) /\ gogui_rules_board_size_cmd(args_of(command))

GoguiRulesSideToMoveLines == DispatchedTo(N_gogui_rules_side_to_move)
GoguiRulesSideToMove ==
    \E command \in GoguiRulesSideToMoveLines : Read(command) /\ gogui_rules_side_to_move_cmd(args_of(command))

GoguiRulesBoardLines == DispatchedTo(N_gogui_rules_board)
GoguiRulesBoard ==
    \E command \in GoguiRulesBoardLines : Read(command) /\ gogui_rules_board_cmd(args_of(command))

GoguiRulesFinalResultLines == DispatchedTo(N_gogui_rules_final_result)
GoguiRulesFinalResult ==
    \E command \in GoguiRulesFinalResultLines : Read(command) /\ gogui_rules_final_result_cmd(args_of(command))

GoguiRulesLegalMovesLines == DispatchedTo(N_gogui_rules_legal_moves)
GoguiRulesLegalMoves ==
    \E command \in GoguiRulesLegalMovesLines : Read(command) /\ gogui_rules_legal_moves_cmd(args_of(command))

\* a game of the model ends when MaxStones stones are on the board
Play ==
    \E command \in PlayLines :
        /\ Read(command)
        /\ play_cmd(args_of(command))
        /\ applied' = 1 => Stones(board) < MaxStones

\* the engine proposes any point of the board, or PASS
GenmoveLines == DispatchedTo(N_genmove)
Genmove ==
    \E command \in GenmoveLines :
        \E move \in OnBoard(board.size) \cup {NoPoint} :
            /\ Read(command)
            /\ genmove_cmd(args_of(command), move)
            /\ applied' = 1 => Stones(board) < MaxStones

\* get_cmd as a whole, for a line that need not be one of Lines: what it writes and
\* what it leaves behind
get_cmd(command) ==
    LET elems == elements(command)
        name == elems[1]
        args == Tail(elems)
    IN  IF elems = <<>> THEN Finish(<<>>, board, komi, "returned", 0)
        ELSE IF has_arg_error(name, Len(args)) THEN Reply(error(argmap(name).usage))
        ELSE IF name = N_protocol_version THEN protocol_version_cmd(args)
        ELSE IF name = N_quit THEN quit_cmd(args)
        ELSE IF name = N_name THEN name_cmd(args)
        ELSE IF name = N_boardsize THEN boardsize_cmd(args)
        ELSE IF name = N_showboard THEN showboard_cmd(args)
        ELSE IF name = N_clear_board THEN clear_board_cmd(args)
        ELSE IF name = N_komi THEN komi_cmd(args)
        ELSE IF name = N_version THEN version_cmd(args)
        ELSE IF name = N_known_command THEN known_command_cmd(args)
        ELSE IF name = N_genmove
             THEN \E move \in OnBoard(board.size) \cup {NoPoint} : genmove_cmd(args, move)
        ELSE IF name = N_list_commands THEN list_commands_cmd(args)
        ELSE IF name = N_play THEN play_cmd(args)
        ELSE IF name = N_gogui_rules_legal_moves THEN gogui_rules_legal_moves_cmd(args)
        ELSE IF name = N_gogui_rules_final_result THEN gogui_rules_final_result_cmd(args)
        ELSE IF name = N_gogui_rules_side_to_move THEN gogui_rules_side_to_move_cmd(args)
        ELSE IF name = N_gogui_rules_game_id THEN gogui_rules_game_id_cmd(args)
        ELSE IF name = N_gogui_rules_board THEN gogui_rules_board_cmd(args)
        ELSE IF name = N_gogui_analyze_commands THEN gogui_analyze_cmd(args)
        ELSE IF name = N_gogui_rules_board_size THEN gogui_rules_board_size_cmd(args)
        ELSE Reply(error("Unknown command"))

\* start_connection: get_cmd has returned, the controller has the response, and
\* the session blocks in stdin.readline() again
Await ==
    /\ status = "returned"
    /\ line' = <<>>
    /\ follows' = "none"
    /\ Finish(<<>>, board, komi, "reading", 0)

\* the session as constructed: an empty board, Black to move, nothing read yet
Init ==
    /\ board \in {reset(n) : n \in BoardSizes}
    /\ komi = 0
    /\ line = <<>>
    /\ out = <<>>
    /\ status = "reading"
    /\ applied = 0
    /\ before = board
    /\ follows = "none"
    /\ point_str = <<>>
    /\ board_size = MINSIZE
    /\ coord = NoCoord
    /\ text = NoText

Next ==
    \/ Ignore
    \/ ArgError
    \/ UnknownCommand
    \/ ProtocolVersion
    \/ Quit
    \/ Name
    \/ Version
    \/ ClearBoard
    \/ Boardsize
    \/ Showboard
    \/ Komi
    \/ KnownCommand
    \/ ListCommands
    \/ GoguiAnalyze
    \/ GoguiRulesGameId
    \/ GoguiRulesBoardSize
    \/ GoguiRulesSideToMove
    \/ GoguiRulesBoard
    \/ GoguiRulesFinalResult
    \/ GoguiRulesLegalMoves
    \/ Play
    \/ Genmove
    \/ Await

Spec == Init /\ [][Next]_vars

----------------------------------------------------------------------------
(* The same session, seen by a controller that keeps the last line and its  *)
(* response while the next line is read: for what two consecutive play      *)
(* commands do. Games of this specification end at MaxReplayStones stones.  *)

ReplayPlay ==
    \E command \in PlayLines :
        /\ Read(command)
        /\ play_cmd(args_of(command))
        /\ applied' = 1 => Stones(board) < MaxReplayStones

ReplayAwait ==
    /\ status = "returned"
    /\ status' = "reading"
    /\ UNCHANGED <<board, komi, line, out, applied, before, follows>>
    /\ UNCHANGED codecVars

NextReplay == ReplayPlay \/ ReplayAwait

SpecReplay == Init /\ [][NextReplay]_vars

----------------------------------------------------------------------------
(* The session on a board of ListBoardSize, where rows have two digits: for  *)
(* the order of the list gogui-rules_legal_moves answers with. Games of this *)
(* specification are played on the points of ListCorner and end at          *)
(* MaxListStones stones.                                                     *)

InitList ==
    /\ board = reset(ListBoardSize)
    /\ komi = 0
    /\ line = <<>>
    /\ out = <<>>
    /\ status = "reading"
    /\ applied = 0
    /\ before = board
    /\ follows = "none"
    /\ point_str = <<>>
    /\ board_size = MINSIZE
    /\ coord = NoCoord
    /\ text = NoText

\* the play commands of the controller of SpecList
ListCorner == {<<"a", "1">>, <<"a", "2">>, <<"b", "1">>, <<"c", "3">>}
ListLines == {command \in PlayLines : lower(args_of(command)[2]) \in ListCorner}

ListPlay ==
    \E command \in ListLines :
        /\ Read(command)
        /\ play_cmd(args_of(command))
        /\ applied' = 1 => Stones(board) < MaxListStones

NextList == ListPlay \/ GoguiRulesLegalMoves \/ Await

SpecList == InitList /\ [][NextList]_vars

----------------------------------------------------------------------------
(* The codec on its own: move_to_coord applied to a text and a board size,  *)
(* then format_point applied to what it returned                            *)

RowTexts == {str(n) : n \in 0..MaxRowText}

\* texts that are no <letter><row>
OddTexts ==
    {<<>>, <<"a">>, <<"p", "a", "s", "s">>, <<"P", "A", "S", "S">>, <<"P", "a", "s", "s">>,
     <<"a", "+", "1">>, <<"a", "-", "1">>, <<"a", "1", "x">>, <<"1", "a">>, <<"a", "0", "1">>,
     <<"a", "1", "_", "0">>, <<"a", "_", "1">>, <<"#", "1">>, <<"a", "a">>, <<"a", " ", "1">>}

CodecTexts ==
    {<<l>> \o r : l \in Range(LowerLetters) \cup Range(UpperLetters), r \in RowTexts}
    \cup OddTexts

InitCodec ==
    /\ board = reset(MINSIZE)
    /\ komi = 0
    /\ line = <<>>
    /\ out = <<>>
    /\ status = "reading"
    /\ applied = 0
    /\ before = board
    /\ follows = "none"
    /\ point_str \in CodecTexts
    /\ board_size \in (MINSIZE - 1)..(MAXSIZE + 1)
    /\ coord = NoCoord
    /\ text = NoText

MoveToCoord ==
    /\ coord = NoCoord
    /\ coord' = move_to_coord(point_str, board_size)
    /\ UNCHANGED <<point_str, board_size, text>>
    /\ UNCHANGED sessionVars

FormatPoint ==
    /\ coord.tag \in {"coord", "pass"}
    /\ text = NoText
    /\ text' = format_point(coord)
    /\ UNCHANGED <<point_str, board_size, coord>>
    /\ UNCHANGED sessionVars

NextCodec == MoveToCoord \/ FormatPoint

SpecCodec == InitCodec /\ [][NextCodec]_vars

----------------------------------------------------------------------------
(* Properties of the codec, under SpecCodec *)

SizeInRange == MINSIZE <= board_size /\ board_size <= MAXSIZE

IsLetter(c) == c \in Range(LowerLetters) \cup Range(UpperLetters)

\* the number of the column a letter names: A = 1, ..., H = 8, J = 9, ..., Z = 25
ColumnNumber(c) == IndexIn(upper_c(c), column_letters)

\* a transport coordinate of a board of the given size: a column letter other than
\* I, in either case, within the board, and a row 1..size in decimal
ValidCoordinate(s, size) ==
    /\ Len(s) >= 2
    /\ IsLetter(s[1]) /\ upper_c(s[1]) # "I"
    /\ ColumnNumber(s[1]) <= size
    /\ \E r \in 1..size : From(s, 1) = str(r)

\* C7: for every board size 2..25 and every valid transport coordinate c of that
\* board, move_to_coord gives a coordinate and format_point of it is c.upper()
C7_RoundTrip ==
    (SizeInRange /\ ValidCoordinate(point_str, board_size) /\ coord # NoCoord) =>
        /\ coord.tag = "coord"
        /\ text # NoText => (~text.raised /\ text.s = upper(point_str))

\* <letter><digits>
LetterDigits(s) == Len(s) >= 2 /\ IsLetter(s[1]) /\ isdigit(From(s, 1))

IsPassText(s) == lower(s) = <<"p", "a", "s", "s">>

\* the inputs C8 says are rejected
Rejected(s, size) ==
    /\ ~IsPassText(s)
    /\ \/ ~LetterDigits(s)
       \/ upper_c(s[1]) = "I"
       \/ ColumnNumber(s[1]) > size
       \/ DigitsValue(From(s, 1)) < 1
       \/ DigitsValue(From(s, 1)) > size

\* C8: move_to_coord never raises; it returns the invalid result for a column
\* letter I or i, a column or row beyond the board, a row below 1, and any text that
\* is neither <letter><digits> nor "pass"; for every other text it returns PASS or
\* a (row, col) with both components in 1..board_size
C8_RejectsInvalid ==
    (SizeInRange /\ coord # NoCoord) =>
        /\ coord # Raised
        /\ Rejected(point_str, board_size) => coord = False
        /\ ~Rejected(point_str, board_size) =>
              \/ coord = PASS
              \/ /\ coord.tag = "coord"
                 /\ coord.row \in 1..board_size
                 /\ coord.col \in 1..board_size

----------------------------------------------------------------------------
(* Properties of the session. They are stated on the states in which        *)
(* get_cmd has returned: line is the line it processed, before the board it *)
(* found, board the board it left, out what it wrote.                       *)

Returned == status = "returned"

PlayReturned == Returned /\ line \in PlayLines

\* the point a coordinate token names on a board of the given size
PointOf(token, size) ==
    coord_to_point(DigitsValue(From(token, 1)), ColumnNumber(token[1]), size)

\* the token names a point of the board
OnBoardToken(token, size) ==
    /\ LetterDigits(token)
    /\ upper_c(token[1]) # "I"
    /\ ColumnNumber(token[1]) <= size
    /\ DigitsValue(From(token, 1)) \in 1..size

\* the colour token names the side to move
NamesSideToMove(token, b) ==
    \/ lower(token) = <<"b">> /\ b.current_player = BLACK
    \/ lower(token) = <<"w">> /\ b.current_player = WHITE

\* playing color at point would take stones off the board
WouldCapture(b, point, color) ==
    \E q \in neighbors(b, point) :
        /\ b.board[q] = opponent(color)
        /\ \A s \in block_of(b, q) : \A n \in neighbors(b, s) : b.board[n] = EMPTY => n = point

IllegalMove(reason, args) == <<respond(reason, <<args[1], args[2]>>)>>
WrongColor(args) == IllegalMove("illegal move: \"{} {}\" wrong color", args)
WrongCoordinate(args) == IllegalMove("illegal move: \"{} {}\" wrong coordinate", args)
Occupied(args) == IllegalMove("illegal move: \"{} {}\" occupied", args)
Suicide(args) == IllegalMove("illegal move: \"{} {}\" suicide", args)
Capture(args) == IllegalMove("illegal move: \"{} {}\" capture", args)
Success == <<respond("", <<>>)>>

\* C1: a play command that repeats, with the same colour and point, the successful
\* play command read just before it is answered "occupied"
C1_RepeatIsOccupied ==
    (Returned /\ follows = "same") => out = Occupied(args_of(line))

\* C1, amended: the repeated command is answered "wrong color", the side to move
\* having changed, and the board stays as it was; "occupied" is the answer to the
\* other colour's play at that point
C1_RepeatIsWrongColor ==
    /\ (Returned /\ follows = "same") => (out = WrongColor(args_of(line)) /\ board = before)
    /\ (Returned /\ follows = "other") => (out = Occupied(args_of(line)) /\ board = before)

C1_Witness == Returned /\ follows = "same" /\ out = WrongColor(args_of(line))

\* C2: a play command whose colour token, whatever it is, does not name the side to
\* move is answered "wrong color", and the board is left as it was
C2_WrongColor ==
    (PlayReturned /\ ~NamesSideToMove(args_of(line)[1], before)) =>
        (out = WrongColor(args_of(line)) /\ board = before)

\* the answer of the first stage of play_cmd's pipeline that fails, Success if none
ExpectedAnswer(b, args) ==
    IF ~NamesSideToMove(args[1], b) THEN WrongColor(args)
    ELSE IF ~OnBoardToken(args[2], b.size) THEN WrongCoordinate(args)
    ELSE IF b.board[PointOf(args[2], b.size)] # EMPTY THEN Occupied(args)
    ELSE IF check_suicide(b, PointOf(args[2], b.size), b.current_player) THEN Suicide(args)
    ELSE IF WouldCapture(b, PointOf(args[2], b.size), b.current_player) THEN Capture(args)
    ELSE Success

\* C3: play answers with the reason of the first stage that fails, in the order
\* wrong color, wrong coordinate, occupied, suicide, capture; every malformed
\* coordinate token, a one-character token and "pass" included, is "wrong coordinate"
C3_FirstFailingStage ==
    PlayReturned => out = ExpectedAnswer(before, args_of(line))

\* C4: a play command that is rejected leaves the board as it was; one that passes
\* all checks calls play_move once on the live board, which puts the one stone on
\* it, and is answered with the empty success frame
C4_AppliedOnlyAfterChecks ==
    PlayReturned =>
        /\ applied \in {0, 1}
        /\ out = Success <=> applied = 1
        /\ applied = 0 => board = before
        /\ applied = 1 =>
              LET args == args_of(line)
                  point == PointOf(args[2], before.size)
              IN  /\ ExpectedAnswer(before, args) = Success
                  /\ board.board = [before.board EXCEPT ![point] = before.current_player]
                  /\ board.current_player = opponent(before.current_player)
        /\ ExpectedAnswer(before, args_of(line)) = Success => applied = 1

C4_Witness == PlayReturned /\ applied = 1 /\ out = Success /\ Stones(board) = 3

\* C5: for every empty point and every colour, capture_detection is true exactly
\* when playing the colour there would empty a point that holds a stone
C5_CaptureDetection ==
    status = "reading" =>
        \A point \in OnBoard(board.size) : \A color \in {BLACK, WHITE} :
            board.board[point] = EMPTY =>
                (capture_detection(board, point, color).value
                    <=> WouldCapture(board, point, color))

\* the points named in the answer to gogui-rules_legal_moves
ListedPoints ==
    {coord_to_point(move_to_coord(t, before.size).row, move_to_coord(t, before.size).col,
                    before.size) : t \in Range(split(out[1].args[1]))}

LegalMovesReturned == Returned /\ line \in GoguiRulesLegalMovesLines

\* C6: the list gogui-rules_legal_moves answers with names only points of the board
\* that are empty and at which the side to move would neither commit suicide nor
\* capture
C6_LegalMovesAreSafe ==
    LegalMovesReturned =>
        /\ Len(out) = 1 /\ out[1].prefix = "="
        /\ \A t \in Range(split(out[1].args[1])) : OnBoardToken(t, before.size)
        /\ \A point \in ListedPoints :
              /\ before.board[point] = EMPTY
              /\ ~check_suicide(before, point, before.current_player)
              /\ ~WouldCapture(before, point, before.current_player)

\* some empty point is a suicide for the side to move, another a capture, and the
\* list is not empty
C6_Witness ==
    /\ LegalMovesReturned
    /\ ListedPoints # {}
    /\ \E point \in OnBoard(before.size) :
          /\ before.board[point] = EMPTY
          /\ check_suicide(before, point, before.current_player)
    /\ \E point \in OnBoard(before.size) :
          /\ before.board[point] = EMPTY
          /\ WouldCapture(before, point, before.current_player)

\* the side to move has a move: an empty point that is neither suicide nor capture
HasMove(b) ==
    \E point \in OnBoard(b.size) :
        /\ b.board[point] = EMPTY
        /\ ~check_suicide(b, point, b.current_player)
        /\ ~WouldCapture(b, point, b.current_player)

FinalResultReturned == Returned /\ line \in GoguiRulesFinalResultLines

\* C9: gogui-rules_final_result answers "white" when Black is to move and has no
\* move, "black" when White is to move and has no move, and "unknown" exactly when
\* the side to move has a move
C9_FinalResult ==
    FinalResultReturned =>
        out = <<respond(IF HasMove(before) THEN "unknown"
                        ELSE IF before.current_player = BLACK THEN "white" ELSE "black",
                        <<>>)>>

C9_Witness ==
    /\ FinalResultReturned
    /\ before.current_player = BLACK
    /\ ~HasMove(before)
    /\ out = <<respond("white", <<>>)>>

\* C10: a line whose command name is not in the command table is answered with the
\* unknown-command error, whatever its arguments; board and engine stay as they
\* were and the session reads on
C10_UnknownCommand ==
    (Returned /\ elements(line) # <<>> /\ elements(line)[1] \notin Range(commands)) =>
        /\ out = <<error("Unknown command")>>
        /\ board = before

\* a step in which get_cmd runs on the line that was read: line' is the line,
\* the unprimed variables what it found, the primed ones what it left
GetCmdStep == status = "reading" /\ status' # "reading"

\* C11: for every command name of argmap, a line with another number of arguments
\* than the required one is answered with the usage error of that entry, the handler
\* is not called (board and engine stay as they were) and the session reads on; a
\* line with the required number is not answered with the usage error
C11_ArityCheck ==
    [][(GetCmdStep /\ parsed[line'] # <<>> /\ command_name(line') \in argmap_keys) =>
          LET name == command_name(line')
              args == args_of(line')
          IN  IF Len(args) # argmap(name).argnum
              THEN /\ out' = <<error(argmap(name).usage)>>
                   /\ board' = board
                   /\ komi' = komi
                   /\ applied' = 0
                   /\ status' = "returned"
              ELSE out' # <<error(argmap(name).usage)>>]_vars

\* a play command with one argument too many, on a board with stones
C11_Witness ==
    /\ Returned
    /\ parsed[line] # <<>>
    /\ command_name(line) = N_play
    /\ Len(args_of(line)) > argmap(N_play).argnum
    /\ out = <<error(argmap(N_play).usage)>>
    /\ Stones(board) >= 2

\* C12: a boardsize command whose argument is not a size is answered with an error
\* frame, and the session reads on
C12_BoardsizeError ==
    (status # "reading" /\ line \in BoardsizeLines /\ int(args_of(line)[1]).raised) =>
        /\ status = "returned"
        /\ Len(out) = 1
        /\ out[1].prefix = "?"

\* a line of blanks only
Blank(s) == \A i \in 1..Len(s) : s[i] \in Whitespace

\* a blank line, a comment, or a numeric id with nothing after it
Ignored(command) ==
    \/ Blank(command)
    \/ command[1] = "#"
    \/ isdigit_c(command[1]) /\ Blank(strip_id(command))

\* C13: a line that is not ignored and whose handler does not raise gets exactly one
\* frame, a success frame "= ..." or an error frame "? ..."; an ignored line (blank,
\* comment, or a numeric id alone) gets no frame and changes nothing
C13_OneFrame ==
    [][GetCmdStep =>
          IF Ignored(line')
          THEN /\ out' = <<>>
               /\ board' = board
               /\ komi' = komi
               /\ applied' = 0
               /\ status' = "returned"
          ELSE status' # "crashed" => (Len(out') = 1 /\ out'[1].prefix \in {"=", "?"})]_vars

\* a comment line read during a game
C13_Witness ==
    /\ Returned
    /\ Ignored(line)
    /\ line[1] = "#"
    /\ out = <<>>
    /\ Stones(board) >= 2

\* an exception is raised inside play_cmd's try block
PlayRaises(b, args) ==
    LET color == color_to_int(lower(args[1]))
    IN  \/ color.raised
        \/ color_checker(b, color.value) /\ coordinate_checker(args[1], args[2]).raised

\* the handler of the line raises an exception, whatever the engine proposes
HandlerRaises(b, command) ==
    \/ command \in PlayLines /\ PlayRaises(b, args_of(command))
    \/ command \in BoardsizeLines /\ int(args_of(command)[1]).raised
    \/ command \in KomiLines /\ float(args_of(command)[1]).raised
    \/ /\ command \in GenmoveLines
       /\ \/ color_to_int(lower(args_of(command)[1])).raised
          \/ color_to_int(args_of(command)[1]).raised

\* C14: an exception inside a handler, play and genmove included, ends the session
\* and no frame is written for it
C14_FailureIsFatal ==
    (status # "reading" /\ HandlerRaises(before, line)) =>
        (status = "crashed" /\ out = <<>>)

\* C15: a genmove command whose colour token, in either letter case, does not name
\* the side to move is answered "wrong color", the board stays as it was and the
\* session reads on
C15_GenmoveWrongColor ==
    (/\ status # "reading"
     /\ line \in GenmoveLines
     /\ lower(args_of(line)[1]) \in ColorTokens
     /\ ~NamesSideToMove(args_of(line)[1], before)) =>
        /\ status = "returned"
        /\ out = <<respond("illegal move: \"{}\" wrong color", <<args_of(line)[1]>>)>>
        /\ board = before

\* the colour a colour token names
ColorOf(token) == IF lower(token) = <<"b">> THEN BLACK ELSE WHITE

\* what genmove is to do when the engine proposes move for the colour of token
GenmoveExpected(token, move) ==
    LET color == ColorOf(token)
        proposed == format_point(point_to_coord(move, board.size)).s
        legal == is_legal(board, move, color)
        capture == move # NoPoint /\ WouldCapture(board, move, color)
    IN  IF color # board.current_player
        THEN board' = board /\ status' = "returned"
        ELSE IF legal /\ ~capture
             THEN /\ out' = <<respond("{}", <<proposed>>)>>
                  /\ board' = play_move(board, move, color).b
                  /\ applied' = 1
                  /\ status' = "returned"
        ELSE IF legal
             THEN /\ out' = <<respond("resign", <<>>)>>
                  /\ board' = board
                  /\ status' = "returned"
        ELSE /\ out' = <<respond("Illegal move: {}", <<proposed>>)>>
             /\ board' = board
             /\ status' = "returned"

\* C16: genmove changes the board exactly when the colour asked for is the side to
\* move and the move the engine proposes is legal and captures nothing; the move is
\* then applied once and answered with its coordinate; a capturing move is answered
\* "resign" and an illegal one with an illegal-move message naming it, the board
\* staying as it was
C16_Genmove ==
    [][(GetCmdStep /\ line' \in GenmoveLines /\ args_of(line')[1] \in ColorTokens) =>
          \E move \in OnBoard(board.size) \cup {NoPoint} :
              GenmoveExpected(args_of(line')[1], move)]_vars

\* C17: capture_detection and the commands that only query with it leave the live
\* board as it was, stones and side to move: gogui-rules_legal_moves and
\* gogui-rules_final_result, and also a play or genmove that it turns down
C17_QueriesLeaveBoard ==
    /\ (Returned /\ line \in GoguiRulesLegalMovesLines \cup GoguiRulesFinalResultLines) =>
           board = before
    /\ (PlayReturned /\ out = Capture(args_of(line))) => board = before
    /\ (Returned /\ line \in GenmoveLines /\ out = <<respond("resign", <<>>)>>) =>
           board = before

\* the final result was asked where some empty point is a capture for the side to
\* move, so that capture_detection played a capturing move on its copy
C17_Witness ==
    /\ FinalResultReturned
    /\ board = before
    /\ \E point \in OnBoard(before.size) :
          /\ before.board[point] = EMPTY
          /\ WouldCapture(before, point, before.current_player)

\* the maximal runs of non-blank characters of a text, in order
Tokens(s) ==
    LET blank(i) == s[i] \in Whitespace
        indices == [i \in 1..Len(s) |-> i]
        starts == SelectSeq(indices, LAMBDA i : ~blank(i) /\ (i = 1 \/ blank(i - 1)))
        stops == SelectSeq(indices, LAMBDA i : ~blank(i) /\ (i = Len(s) \/ blank(i + 1)))
    IN  [k \in 1..Len(starts) |-> SubSeq(s, starts[k], stops[k])]

\* the coordinate texts in the answer to gogui-rules_legal_moves
ListedTexts == Tokens(out[1].args[1])

\* C18: the answer to gogui-rules_legal_moves is the coordinate texts of exactly
\* the points of legal_move_helper, joined by single spaces, in the order of their
\* first character (the column letter) alone; texts of one column keep the order
\* in which the empty points were enumerated (stated on neighbours in the list)
C18_LegalMovesOrder ==
    LegalMovesReturned =>
        LET helper == legal_move_helper(before)
            T == ListedTexts
            P == [i \in 1..Len(T) |-> PointOf(T[i], before.size)]
        IN  /\ out = <<respond("{}", <<join(<<" ">>, T)>>)>>
            /\ Len(T) = Len(helper)
            /\ Range(P) = Range(helper)
            /\ \A i \in 1..Len(T) :
                  T[i] = format_point(point_to_coord(P[i], before.size)).s
            /\ \A i \in 1..(Len(T) - 1) :
                  \/ IndexIn(T[i][1], UpperLetters) < IndexIn(T[i + 1][1], UpperLetters)
                  \/ /\ T[i][1] = T[i + 1][1]
                     /\ IndexIn(P[i], helper) < IndexIn(P[i + 1], helper)

\* a list with rows 2 and 10 of one column, and with a point left out that is empty
C18_Witness ==
    /\ LegalMovesReturned
    /\ before.size = ListBoardSize
    /\ \E i, j \in 1..Len(ListedTexts) :
          /\ i < j
          /\ ListedTexts[i] = <<"B", "2">>
          /\ ListedTexts[j] = <<"B", "1", "0">>
    /\ Len(ListedTexts) < Len(get_empty_points(before))

\* C19: a line that begins with a numeric id is processed as the same line without
\* the id is: the same frame, with nothing of the id in it, and the same board and
\* engine afterwards; a line of digits alone is ignored
C19_NumberedLine ==
    [][(GetCmdStep /\ isdigit_c(line'[1])) =>
          /\ get_cmd(strip_id(line'))
          /\ Blank(strip_id(line')) =>
                (out' = <<>> /\ board' = board /\ komi' = komi /\ status' = "returned")]_vars

\* a numbered play command has put its stone on a board with stones
C19_Witness ==
    /\ PlayReturned
    /\ isdigit_c(line[1])
    /\ out = Success
    /\ applied = 1
    /\ Stones(board) >= 2

\* C20: play and the legal-move query agree: a play command of the side to move at
\* a point of the board is applied exactly when legal_move_helper returns the point;
\* so where gogui-rules_final_result names a winner, every play command of the side
\* to move is turned down (a play command that is not turned down finds a legal move)
C20_PlayAgreesWithLegalMoves ==
    (PlayReturned \/ FinalResultReturned) =>
        LET helper == legal_move_helper(before)
        IN  /\ (/\ PlayReturned
                /\ NamesSideToMove(args_of(line)[1], before)
                /\ OnBoardToken(args_of(line)[2], before.size)) =>
                   (applied = 1 <=>
                       PointOf(args_of(line)[2], before.size) \in Range(helper))
            /\ (FinalResultReturned /\ out # <<respond("unknown", <<>>)>>) =>
                   helper = <<>>
            /\ (PlayReturned /\ (applied # 0 \/ board # before \/ out = Success)) =>
                   helper # <<>>

\* the side to move has no legal move, and its play at an empty point is turned down
C20_Witness ==
    /\ PlayReturned
    /\ NamesSideToMove(args_of(line)[1], before)
    /\ OnBoardToken(args_of(line)[2], before.size)
    /\ before.board[PointOf(args_of(line)[2], before.size)] = EMPTY
    /\ legal_move_helper(before) = <<>>
    /\ applied = 0

====
